---- MODULE Spec2Model ----
(***************************************************************************)
(* Model of BackupCreator.create_backup (src/backup.py): the sequential    *)
(* pipeline validate -> copy -> archive -> remove copy -> prune, run       *)
(* against a destination root whose entries are keyed by file name.        *)
(* File names are sequences of one-character strings, so that with_suffix  *)
(* and the glob pattern of the retention step act on the characters.       *)
(***************************************************************************)
EXTENDS Integers, Sequences, FiniteSets, TLC

VARIABLES pc, folder, maxBackups, createZip, srcKind, srcTree, srcChanged,
          destKind, root, clock, backupName, copyTree, zipTree, zipRes,
          zipSkipped, backupPath, diskOutcome, result, raised, errors,
          pruned, root0, destKind0

vars == <<pc, folder, maxBackups, createZip, srcKind, srcTree, srcChanged,
          destKind, root, clock, backupName, copyTree, zipTree, zipRes,
          zipSkipped, backupPath, diskOutcome, result, raised, errors,
          pruned, root0, destKind0>>

----------------------------------------------------------------------------
(* Bounds                                                                  *)

MaxClock == 1
MaxKeep == 1
MaxContent == 1
MaxFree == 2
MaxOld == 1

----------------------------------------------------------------------------
(* Names                                                                   *)

BackupInfix == <<"_", "b", "a", "c", "k", "u", "p", "_">>
ZipSuffix == <<".", "z", "i", "p">>

FolderA == <<"a">>
FolderAX == FolderA \o BackupInfix \o <<"x">>
FolderDot == <<"a", ".", "b">>
Folders == {FolderA, FolderAX, FolderDot}

Digits == <<"0", "1", "2", "3", "4", "5", "6", "7", "8", "9">>
TwoDigits(n) == <<Digits[(n \div 10) + 1], Digits[(n % 10) + 1]>>

BaseDate == <<"2", "0", "2", "6", "-", "1", "1", "-", "0", "1">>

\* datetime.now().strftime("%Y-%m-%d_%H-%M-%S"); the clock counts the
\* seconds of one local day.
Strftime(t) ==
    BaseDate \o <<"_">> \o TwoDigits((t \div 3600) % 24) \o <<"-">>
        \o TwoDigits((t \div 60) % 60) \o <<"-">> \o TwoDigits(t % 60)

BackupName(f, t) == f \o BackupInfix \o Strftime(t)

\* str.rfind('.') as a 1-based index, 0 when there is no dot
RFindDot(name) ==
    LET dots == {i \in 1..Len(name) : name[i] = "."}
    IN  IF dots = {} THEN 0 ELSE CHOOSE i \in dots : \A j \in dots : j <= i

\* PurePath.suffix: the part from the last dot, unless that dot is the first
\* or the last character of the name
Suffix(name) ==
    LET i == RFindDot(name)
    IN  IF 1 < i /\ i < Len(name) THEN SubSeq(name, i, Len(name)) ELSE <<>>

\* PurePath.with_suffix
WithSuffix(name, suffix) ==
    SubSeq(name, 1, Len(name) - Len(Suffix(name))) \o suffix

StartsWith(name, p) == Len(name) >= Len(p) /\ SubSeq(name, 1, Len(p)) = p
EndsWith(name, s) ==
    Len(name) >= Len(s) /\ SubSeq(name, Len(name) - Len(s) + 1, Len(name)) = s

\* fnmatch of a name against  prefix + "*" + suffix
GlobMatch(name, prefix, suffix) ==
    /\ Len(name) >= Len(prefix) + Len(suffix)
    /\ StartsWith(name, prefix)
    /\ EndsWith(name, suffix)

----------------------------------------------------------------------------
(* Trees: one regular file "f" (content 0 = absent, c > 0 = a string of c  *)
(* bytes) and one empty sub-directory "d".                                 *)

FileNames == {"f"}
DirNames == {"d"}
Trees == [files : [FileNames -> 0..MaxContent], dirs : SUBSET DirNames]
EmptyTree == [files |-> [n \in FileNames |-> 0], dirs |-> {}]

RECURSIVE SumOver(_, _)
SumOver(S, g) ==
    IF S = {} THEN 0
    ELSE LET x == CHOOSE y \in S : TRUE IN g[x] + SumOver(S \ {x}, g)

\* get_directory_size: the sum of the sizes of the regular files
GetDirectorySize(tree) == SumOver(FileNames, tree.files)

SpaceFactor == 2
RequiredSpaceSingle(size) == size
RequiredSpace(size) == size * SpaceFactor

\* what shutil.disk_usage / the size walk produce: an exception or a number
NoDisk == [kind |-> "none", free |-> 0]
DiskOutcomes ==
    {[kind |-> "raise", free |-> 0]}
        \cup {[kind |-> "free", free |-> n] : n \in 0..MaxFree}

\* check_disk_space
CheckDiskSpace(tree, outcome) ==
    IF outcome.kind = "raise" THEN TRUE
    ELSE ~(outcome.free < RequiredSpace(GetDirectorySize(tree)))

SourceValidLoose(kind) == kind # "absent"
SourceValid(kind) == kind = "dir"

----------------------------------------------------------------------------
(* Destination root                                                        *)

EmptyRoot == [n \in {} |-> 0]
Entry(k, m, o) == [kind |-> k, mtime |-> m, owner |-> o]
Put(r, n, e) == [x \in DOMAIN r \cup {n} |-> IF x = n THEN e ELSE r[x]]
Remove(r, D) == [x \in DOMAIN r \ D |-> r[x]]

NoPath == <<>>
NoResult == [ok |-> FALSE, path |-> NoPath, msg |-> "none"]
Failure(m) == [ok |-> FALSE, path |-> NoPath, msg |-> m]
Success(p) == [ok |-> TRUE, path |-> p, msg |-> ""]

\* The backups an earlier invocation for folder f, started at second 0 of
\* the day, can have left: the uncompressed copy and the archive.
OldBackups ==
    {[name |-> BackupName(f, 0), kind |-> "dir", owner |-> f] : f \in Folders}
        \cup {[name |-> WithSuffix(BackupName(f, 0), ZipSuffix),
                kind |-> "file", owner |-> f] : f \in Folders}

\* Destination contents: at most MaxOld older backups, with any mtimes.
OldRoots ==
    {[n \in {b.name : b \in S} |->
         LET b == CHOOSE c \in S : c.name = n
         IN  Entry(b.kind, m[b], b.owner)] :
       <<S, m>> \in UNION {{<<T, g>> : g \in [T -> 0..MaxClock]} :
                            T \in {U \in SUBSET OldBackups :
                                     Cardinality(U) <= MaxOld}}}

\* The state of the file system and of the clock when the tool is started.
Init ==
    /\ pc = "idle"
    /\ folder = FolderA
    /\ maxBackups = 0
    /\ createZip = TRUE
    /\ srcKind = "absent"
    /\ srcTree = EmptyTree
    /\ srcChanged = FALSE
    /\ destKind \in {"absent", "dir", "file"}
    /\ root \in (IF destKind = "dir" THEN OldRoots ELSE {EmptyRoot})
    /\ clock \in 0..MaxClock
    /\ backupName = NoPath
    /\ copyTree = EmptyTree
    /\ zipTree = EmptyTree
    /\ zipRes = NoPath
    /\ zipSkipped = {}
    /\ backupPath = NoPath
    /\ diskOutcome = NoDisk
    /\ result = NoResult
    /\ raised = FALSE
    /\ errors = {}
    /\ pruned = FALSE
    /\ root0 = root
    /\ destKind0 = destKind

\* main() calling create_backup with its arguments (lines 257-262); the
\* source path is in the state the caller's file system has at that moment
Start ==
    /\ pc = "idle"
    /\ \E f \in Folders, m \in 0..MaxKeep, z \in BOOLEAN,
          k \in {"absent", "file", "dir"}, t \in Trees :
            /\ k # "dir" => t = EmptyTree
            /\ folder' = f
            /\ maxBackups' = m
            /\ createZip' = z
            /\ srcKind' = k
            /\ srcTree' = t
    /\ pc' = "validate"
    /\ UNCHANGED <<srcChanged, destKind, root, clock, backupName, copyTree,
                   zipTree, zipRes, zipSkipped, backupPath, diskOutcome,
                   result, raised, errors, pruned, root0, destKind0>>

\* validate_paths and the early return of create_backup (lines 104-106);
\* validate_paths runs outside the try block of create_backup
Validate ==
    /\ pc = "validate"
    /\ IF ~SourceValid(srcKind)
       THEN /\ result' = Failure(IF srcKind = "absent" THEN "no_source"
                                                       ELSE "not_dir")
            /\ pc' = "done"
            /\ UNCHANGED <<destKind, diskOutcome, raised, errors>>
       ELSE IF destKind = "file"
       THEN \* mkdir(exist_ok=True) on a regular file: FileExistsError,
            \* which the except PermissionError clause does not catch
            /\ raised' = TRUE
            /\ errors' = errors \cup {"mkdir"}
            /\ pc' = "done"
            /\ UNCHANGED <<destKind, diskOutcome, result>>
       ELSE \E denied \in BOOLEAN, o \in DiskOutcomes :
            IF destKind = "absent" /\ denied
            THEN /\ result' = Failure("no_permission")
                 /\ errors' = errors \cup {"mkdir"}
                 /\ pc' = "done"
                 /\ UNCHANGED <<destKind, diskOutcome, raised>>
            ELSE /\ denied = FALSE
                 /\ destKind' = "dir"
                 /\ diskOutcome' = o
                 /\ errors' = IF o.kind = "raise" THEN errors \cup {"disk"}
                                                 ELSE errors
                 /\ IF CheckDiskSpace(srcTree, o)
                    THEN pc' = "copy" /\ UNCHANGED result
                    ELSE pc' = "done" /\ result' = Failure("no_space")
                 /\ UNCHANGED raised
    /\ UNCHANGED <<folder, maxBackups, createZip, srcKind, srcTree, srcChanged,
                   root, clock, backupName, copyTree, zipTree, zipRes,
                   zipSkipped, backupPath, pruned, root0, destKind0>>

\* lines 112-122: the backup name and shutil.copytree
Copy ==
    /\ pc = "copy"
    /\ LET name == BackupName(folder, clock) IN
       /\ backupName' = name
       /\ backupPath' = name
       /\ \E fault \in {"ok", "permission", "copy_error"} :
            IF name \in DOMAIN root
            THEN \* os.makedirs of an existing path: FileExistsError
                 /\ fault = "ok"
                 /\ result' = Failure("unexpected")
                 /\ errors' = errors \cup {"copy"}
                 /\ pc' = "done"
                 /\ UNCHANGED <<root, copyTree>>
            ELSE IF fault = "permission"
            THEN /\ result' = Failure("access")
                 /\ errors' = errors \cup {"copy"}
                 /\ pc' = "done"
                 /\ UNCHANGED <<root, copyTree>>
            ELSE IF fault = "copy_error"
            THEN \* shutil.Error is raised after the walk: the directory
                 \* exists, the files that failed are missing from it
                 /\ root' = Put(root, name, Entry("dir", clock, folder))
                 /\ copyTree' = [srcTree EXCEPT !.files = EmptyTree.files]
                 /\ result' = Failure("copy")
                 /\ errors' = errors \cup {"copy"}
                 /\ pc' = "done"
            ELSE /\ root' = Put(root, name, Entry("dir", clock, folder))
                 /\ copyTree' = srcTree
                 /\ pc' = IF createZip THEN "zip" ELSE "prune"
                 /\ UNCHANGED <<result, errors>>
    \* free_space and source_size were locals of check_disk_space
    /\ diskOutcome' = NoDisk
    /\ UNCHANGED <<folder, maxBackups, createZip, srcKind, srcTree, srcChanged,
                   destKind, clock, zipTree, zipRes, zipSkipped, raised,
                   pruned, root0, destKind0>>

\* the tree create_zip_archive walks: original_source.rglob("*")
ZipWalkRoot(source, copy) == source

\* the entries of the archive: the regular files of the walked tree whose
\* zipf.write did not raise
ArchiveOf(tree, skipped) ==
    [files |-> [n \in FileNames |-> IF n \in skipped THEN 0 ELSE tree.files[n]],
     dirs |-> {}]

\* "if zip_file_path:" (line 127)
ZipSucceededAlways(z) == TRUE
ZipSucceeded(z) == z # NoPath

\* create_zip_archive (lines 165-188) and the branch of line 127
Zip ==
    /\ pc = "zip"
    /\ LET zipPath == WithSuffix(backupName, ZipSuffix)
           walked == ZipWalkRoot(srcTree, copyTree)
           present == {n \in FileNames : walked.files[n] # 0}
       IN  \E outcome \in {"ok", "open_fails", "walk_fails"} :
           \E skipped \in SUBSET present :
             /\ outcome # "ok" => skipped = {}
             /\ zipPath \in DOMAIN root /\ root[zipPath].kind = "dir"
                    => outcome = "open_fails"
             /\ zipSkipped' = skipped
             /\ IF outcome = "open_fails"
                THEN /\ zipRes' = NoPath
                     /\ errors' = errors \cup {"zip"}
                     /\ UNCHANGED <<root, zipTree>>
                ELSE IF outcome = "walk_fails"
                THEN \* the with block closes a truncated archive
                     /\ zipRes' = NoPath
                     /\ errors' = errors \cup {"zip"}
                     /\ root' = Put(root, zipPath, Entry("file", clock, folder))
                     /\ zipTree' = EmptyTree
                ELSE /\ zipRes' = zipPath
                     /\ errors' = IF skipped = {} THEN errors
                                   ELSE errors \cup {"zip_entry"}
                     /\ root' = Put(root, zipPath, Entry("file", clock, folder))
                     /\ zipTree' = ArchiveOf(walked, skipped)
             /\ pc' = IF ZipSucceeded(zipRes') THEN "rmcopy" ELSE "prune"
    /\ UNCHANGED <<folder, maxBackups, createZip, srcKind, srcTree, srcChanged,
                   destKind, clock, backupName, copyTree, backupPath,
                   diskOutcome, result, raised, pruned, root0,
                   destKind0>>

\* lines 128-131: shutil.rmtree of the uncompressed copy
RemoveCopy ==
    /\ pc = "rmcopy"
    /\ \E denied \in BOOLEAN :
         IF denied
         THEN /\ result' = Failure("access")
              /\ errors' = errors \cup {"rmtree"}
              /\ pc' = "done"
              /\ UNCHANGED <<root, backupPath>>
         ELSE /\ root' = Remove(root, {backupName})
              /\ backupPath' = zipRes
              /\ pc' = "prune"
              /\ UNCHANGED <<result, errors>>
    /\ UNCHANGED <<folder, maxBackups, createZip, srcKind, srcTree, srcChanged,
                   destKind, clock, backupName, copyTree, zipTree, zipRes,
                   zipSkipped, diskOutcome, raised, pruned, root0,
                   destKind0>>

\* Path.glob returns a generator, and a generator object is true
GeneratorIsTrue == TRUE

\* backup_dir.glob(pattern + ".zip") or backup_dir.glob(pattern)
GlobBackups(r, f) ==
    LET zips == {n \in DOMAIN r : GlobMatch(n, f \o BackupInfix, ZipSuffix)}
        all == {n \in DOMAIN r : GlobMatch(n, f \o BackupInfix, <<>>)}
    IN  IF GeneratorIsTrue THEN zips ELSE all

\* sorted(..., key=os.path.getmtime, reverse=True): every order of the set
\* with non-increasing mtime (glob yields equal mtimes in directory order)
SortedByMtimeDesc(r, S) ==
    {s \in [1..Cardinality(S) -> S] :
        /\ \A i, j \in 1..Cardinality(S) : i # j => s[i] # s[j]
        /\ \A i, j \in 1..Cardinality(S) :
              i < j => r[s[i]].mtime >= r[s[j]].mtime}

\* backups[max_backups:]
Beyond(s, n) == {s[i] : i \in (n + 1)..Len(s)}

\* cleanup_old_backups (lines 190-214); undeletable is the set of backups
\* whose unlink / rmtree raises
CleanupOldBackups(r, f, n, order, undeletable) ==
    Remove(r, Beyond(order, n) \ undeletable)

\* lines 137-150: pruning, the statistics and the return
Prune ==
    /\ pc = "prune"
    /\ \E order \in SortedByMtimeDesc(root, GlobBackups(root, folder)) :
       \E undeletable \in SUBSET Beyond(order, maxBackups) :
         /\ root' = CleanupOldBackups(root, folder, maxBackups, order,
                                      undeletable)
         /\ errors' = IF undeletable = {} THEN errors
                       ELSE errors \cup {"prune"}
    /\ pruned' = TRUE
    /\ result' = Success(backupPath)
    /\ pc' = "done"
    /\ UNCHANGED <<folder, maxBackups, createZip, srcKind, srcTree, srcChanged,
                   destKind, clock, backupName, copyTree, zipTree, zipRes,
                   zipSkipped, backupPath, diskOutcome, raised, root0,
                   destKind0>>

----------------------------------------------------------------------------
(* Environment                                                             *)

\* the source tree is changed between the copy step and the archive step
ModifySource ==
    /\ pc = "zip"
    /\ ~srcChanged
    /\ \E t \in Trees : t # srcTree /\ srcTree' = t
    /\ srcChanged' = TRUE
    /\ UNCHANGED <<pc, folder, maxBackups, createZip, srcKind, destKind, root,
                   clock, backupName, copyTree, zipTree, zipRes, zipSkipped,
                   backupPath, diskOutcome, result, raised, errors, pruned,
                   root0, destKind0>>

Next ==
    \/ Start
    \/ Validate
    \/ Copy
    \/ Zip
    \/ RemoveCopy
    \/ Prune
    \/ ModifySource

Spec == Init /\ [][Next]_vars
----------------------------------------------------------------------------
(* Properties                                                              *)

Min(a, b) == IF a < b THEN a ELSE b
Mine(r) == {n \in DOMAIN r : r[n].owner = folder}
Returned == pc = "done" /\ result.ok
ZipMade == zipRes # NoPath
CopyPath == BackupName(folder, clock)

\* the tree a reader gets back from the backup create_backup returned
Extracted == IF createZip /\ ZipMade THEN zipTree ELSE copyTree

\* C1: after a successful create_backup in which no deletion raised, the
\* backups of this folder left in the destination (archives and copies
\* alike) are exactly the min(existing, max_backups) newest ones, where
\* existing counts those present just before pruning.
C1_KeepsNewest ==
    [][(pc = "prune" /\ "prune" \notin errors')
        => LET existing == Mine(root)
               left == Mine(root')
           IN  /\ left \subseteq existing
               /\ Cardinality(left) = Min(Cardinality(existing), maxBackups)
               /\ \A k \in left, d \in existing \ left :
                     root[k].mtime >= root[d].mtime]_vars

\* C2: whenever create_backup returns success for a source tree that was
\* not changed during the run, the tree obtained from the produced backup
\* has the same relative paths as the source, each with identical content.
C2_ContentsMatch ==
    (Returned /\ ~srcChanged /\ result.path \in DOMAIN root)
        => Extracted = srcTree

\* C3: a run for folder F never deletes a backup produced for another
\* folder G from the destination root.
C3_OtherFoldersKept ==
    [][pc # "idle"
        => \A n \in DOMAIN root :
              root[n].owner # folder => n \in DOMAIN root']_vars

\* C4: when any error was raised during validation, copying, archiving or
\* pruning, create_backup returns (False, message) and no exception
\* propagates out of it.
C4_ErrorsAreFailures ==
    (pc = "done" /\ errors # {}) => (~raised /\ ~result.ok)

C6_BackupNamed ==
    Returned
        => IF createZip /\ ZipMade
           THEN /\ result.path = CopyPath \o ZipSuffix
                /\ GlobMatch(result.path, folder \o BackupInfix, ZipSuffix)
           ELSE result.path = CopyPath

\* C7 as written: the outcome of the free-space check alone never makes
\* validation fail; once the check has run on a valid source and
\* destination, the backup proceeds to the copy step.
C7_CheckIsAdvisory ==
    diskOutcome.kind # "none" => pc = "copy"

\* C7 amended: the check is ignored only when it cannot be carried out.
\* When measuring raises, the backup proceeds; when the measured free space
\* is below twice the source size, create_backup returns (False, message)
\* without raising; otherwise the backup proceeds.
C7_CheckFailsWhenShort ==
    diskOutcome.kind # "none"
        => LET size == GetDirectorySize(srcTree) IN
           /\ diskOutcome.kind = "raise" => pc = "copy"
           /\ (diskOutcome.kind = "free" /\ diskOutcome.free < size + size)
                 => /\ pc = "done"
                    /\ result = Failure("no_space")
                    /\ ~raised
           /\ (diskOutcome.kind = "free" /\ diskOutcome.free >= size + size)
                 => pc = "copy"

C7_Witness ==
    /\ pc = "done"
    /\ diskOutcome.kind = "free"
    /\ diskOutcome.free > 0
    /\ result = Failure("no_space")

\* C8: in zip mode, when every entry was written, the entries of the
\* archive are exactly the files of the copy made in the copy step, even
\* if the source tree changed between the copy step and the archive step.
C8_ArchiveOfCopy ==
    (createZip /\ ZipMade /\ zipSkipped = {})
        => zipTree.files = copyTree.files

C10_NewBackupSurvives ==
    (Returned /\ maxBackups >= 1) => result.path \in DOMAIN root
====
